---- MODULE Spec2Model ----
\* The HTTP gateway of ai-backend/api/flask_api.py: module-level
\* initialisation of the chatbot, the Flask views and the CORS hooks.
\* One action per route; each action runs the whole request (view,
\* collaborator call, after_request hooks) and records the response.
EXTENDS Integers, Sequences, FiniteSets, TLC

VARIABLES CHATBOT_READY, CHATBOT_ERROR, bot, boot, req, stub, resp, calls,
          bodyRead, propagated

vars == <<CHATBOT_READY, CHATBOT_ERROR, bot, boot, req, stub, resp, calls,
          bodyRead, propagated>>

-----------------------------------------------------------------------------
\* Bounds and input alphabets

MaxLen == 2

Whitespace == {" ", "\t", "\n"}

Chars == {" ", "a"}

RECURSIVE StringsUpTo(_)
StringsUpTo(n) ==
    IF n = 0 THEN {<<>>}
    ELSE LET shorter == StringsUpTo(n - 1)
         IN  shorter \cup {Append(s, c) : s \in {t \in shorter : Len(t) = n - 1}, c \in Chars}

Strings == StringsUpTo(MaxLen)

-----------------------------------------------------------------------------
\* Python and JSON values, tagged by type

PyNone == [t |-> "None", v |-> 0]

PyStr(s) == [t |-> "str", v |-> s]

PyInt(n) == [t |-> "int", v |-> n]

PyBool(b) == [t |-> "bool", v |-> b]

PyDict(f) == [t |-> "dict", v |-> f]

JNull == [t |-> "null", v |-> 0]

JString(s) == [t |-> "string", v |-> s]

JNumber(n) == [t |-> "number", v |-> n]

JObject(f) == [t |-> "object", v |-> f]

EmptyMap == [k \in {} |-> PyNone]

Put(f, k, val) == [x \in (DOMAIN f) \cup {k} |-> IF x = k THEN val ELSE f[x]]

\* request.get_json(): the JSON document as Python objects
RECURSIVE get_json(_)
get_json(j) ==
    CASE j.t = "null"    -> PyNone
      [] j.t = "string"  -> PyStr(j.v)
      [] j.t = "number"  -> PyInt(j.v)
      [] j.t = "boolean" -> PyBool(j.v)
      [] j.t = "object"  -> PyDict([k \in DOMAIN j.v |-> get_json(j.v[k])])

\* jsonify(): Python objects as a JSON document
RECURSIVE jsonify(_)
jsonify(p) ==
    CASE p.t = "None" -> JNull
      [] p.t = "str"  -> JString(p.v)
      [] p.t = "int"  -> JNumber(p.v)
      [] p.t = "bool" -> [t |-> "boolean", v |-> p.v]
      [] p.t = "dict" -> JObject([k \in DOMAIN p.v |-> jsonify(p.v[k])])

\* Python truthiness, as used by `not data` and `not question`
Truthy(p) ==
    CASE p.t = "None" -> FALSE
      [] p.t = "str"  -> Len(p.v) > 0
      [] p.t = "int"  -> p.v # 0
      [] p.t = "bool" -> p.v
      [] p.t = "dict" -> DOMAIN p.v # {}

\* str.strip()
RECURSIVE lstrip(_)
lstrip(s) == IF s # <<>> /\ Head(s) \in Whitespace THEN lstrip(Tail(s)) ELSE s

RECURSIVE rstrip(_)
rstrip(s) ==
    IF s # <<>> /\ s[Len(s)] \in Whitespace THEN rstrip(SubSeq(s, 1, Len(s) - 1)) ELSE s

strip(s) == rstrip(lstrip(s))

\* str(int) for a non-negative int
DigitChars == <<"0", "1", "2", "3", "4", "5", "6", "7", "8", "9">>

RECURSIVE str_int(_)
str_int(n) ==
    IF n < 10 THEN <<DigitChars[n + 1]>>
    ELSE str_int(n \div 10) \o <<DigitChars[(n % 10) + 1]>>

DigitValue(c) == CHOOSE d \in 0..9 : DigitChars[d + 1] = c

\* the <int:session_id> converter: int() of the path segment
RECURSIVE to_python(_)
to_python(seg) ==
    IF Len(seg) = 1 THEN DigitValue(seg[1])
    ELSE 10 * to_python(SubSeq(seg, 1, Len(seg) - 1)) + DigitValue(seg[Len(seg)])

\* str(x) inside an f-string
Fmt(p) ==
    CASE p.t = "None" -> <<"None">>
      [] p.t = "str"  -> p.v
      [] p.t = "int"  -> str_int(p.v)

Contains(s, sub) ==
    \E i \in 1..(Len(s) + 1) :
        /\ i + Len(sub) - 1 <= Len(s)
        /\ SubSeq(s, i, i + Len(sub) - 1) = sub

-----------------------------------------------------------------------------
\* Cross-origin policy

\* Origins are texts cut into chunks: scheme, host labels, known suffixes.
AllowedOrigins ==
    { <<"http://", "localhost:3000">>,
      <<"https://", "unycompass", ".vercel.app">> }

Origins ==
    { PyNone,
      PyStr(<<"http://", "localhost:3000">>),
      PyStr(<<"https://", "unycompass", ".vercel.app">>),
      PyStr(<<"https://", "foo.", "unycompass", ".vercel.app">>),
      PyStr(<<"https://", "unycompass", ".vercel.app", ".evil.com">>),
      PyStr(<<"https://", "evil.example.com">>),
      PyStr(<<"http://", "foo.", "unycompass", ".vercel.app">>) }

\* the origins tried on the routes that take a JSON body
AskOrigins ==
    { PyNone,
      PyStr(<<"https://", "foo.", "unycompass", ".vercel.app">>),
      PyStr(<<"https://", "unycompass", ".vercel.app", ".evil.com">>) }

\* re.match(r"https:\/\/.*unycompass.*\.vercel\.app", origin): anchored at the
\* start of the text only
re_match(o) ==
    /\ Len(o) >= 1
    /\ o[1] = "https://"
    /\ \E i \in 2..Len(o) : \E j \in (i + 1)..Len(o) :
          o[i] = "unycompass" /\ o[j] = ".vercel.app"

apply_cors(origin, headers) ==
    IF Truthy(origin) /\ re_match(origin.v)
    THEN Put(Put(Put(Put(headers,
             "Access-Control-Allow-Origin", origin.v),
             "Access-Control-Allow-Credentials", <<"true">>),
             "Access-Control-Allow-Methods", <<"GET, POST, OPTIONS">>),
             "Access-Control-Allow-Headers", <<"Content-Type, Authorization">>)
    ELSE headers

\* the hook installed by CORS(app, origins=[...], supports_credentials=True)
cors_after_request(origin, headers) ==
    IF "Access-Control-Allow-Origin" \in DOMAIN headers THEN headers
    ELSE IF origin.t = "str" /\ origin.v \in AllowedOrigins
    THEN Put(Put(headers,
             "Access-Control-Allow-Origin", origin.v),
             "Access-Control-Allow-Credentials", <<"true">>)
    ELSE headers

NoHeaders == [k \in {} |-> <<>>]

\* Flask runs after_request hooks in reverse order of registration
after_request(origin) == cors_after_request(origin, apply_cors(origin, NoHeaders))

-----------------------------------------------------------------------------
\* Collaborator behaviour

BotHandle == [t |-> "UNYCompassBot", v |-> 0]

Answers == {<<"answer one">>, <<"answer two">>}

Return(a) == [t |-> "return", v |-> a]

Raise(e) == [t |-> "raise", v |-> e]

\* what the collaborator does when called during a request
Stubs == {Return(a) : a \in Answers} \cup {Raise(<<"bot failure">>)}

\* what the two constructors do at start-up
Constructions ==
    { [db |-> Return(<<>>), bot |-> Return(<<>>)],
      [db |-> Return(<<>>), bot |-> Raise(<<"model load failed">>)],
      [db |-> Raise(<<"database unreachable">>), bot |-> Return(<<>>)] }

\* module-level initialisation
\* initialisation that loses the text of a bot construction failure
Initialize_error_lost(c) ==
    IF c.db.t = "raise"
    THEN [CHATBOT_READY |-> FALSE, CHATBOT_ERROR |-> PyStr(c.db.v), bot |-> PyNone]
    ELSE IF c.bot.t = "raise"
    THEN [CHATBOT_READY |-> FALSE, CHATBOT_ERROR |-> PyNone, bot |-> PyNone]
    ELSE [CHATBOT_READY |-> TRUE, CHATBOT_ERROR |-> PyNone, bot |-> BotHandle]

Initialize(c) ==
    IF c.db.t = "raise"
    THEN [CHATBOT_READY |-> FALSE, CHATBOT_ERROR |-> PyStr(c.db.v), bot |-> PyNone]
    ELSE IF c.bot.t = "raise"
    THEN [CHATBOT_READY |-> FALSE, CHATBOT_ERROR |-> PyStr(c.bot.v), bot |-> PyNone]
    ELSE [CHATBOT_READY |-> TRUE, CHATBOT_ERROR |-> PyNone, bot |-> BotHandle]

Now == PyStr(<<"timestamp">>)

Call(op, args, kwargs) == [op |-> op, args |-> args, kwargs |-> kwargs]

Result(ret, log, exc) == [ret |-> ret, calls |-> log, exc |-> exc]

ErrorDict(text) == [k \in {"error"} |-> PyStr(text)]

Success(question, answer) ==
    [k \in {"success", "question", "answer", "timestamp"} |->
        CASE k = "success"   -> PyBool(TRUE)
          [] k = "question"  -> question
          [] k = "answer"    -> PyStr(answer)
          [] k = "timestamp" -> Now]

\* ask_question without the readiness check
ask_question_unguarded(question, oc) ==
    IF ~Truthy(question)
    THEN Result(ErrorDict(<<"Question cannot be empty">>), <<>>, FALSE)
    ELSE IF question.t # "str"
    THEN Result(EmptyMap, <<>>, TRUE)
    ELSE IF ~Truthy(PyStr(strip(question.v)))
    THEN Result(ErrorDict(<<"Question cannot be empty">>), <<>>, FALSE)
    ELSE LET log == <<Call("answer_question", <<PyStr(strip(question.v))>>, EmptyMap)>>
         IN  IF oc.t = "return"
             THEN Result(Success(question, oc.v), log, FALSE)
             ELSE Result(ErrorDict(<<"Error processing question: ">> \o oc.v), log, FALSE)

\* ask_question reporting the stripped question instead of the one received
ask_question_stripped_echo(question, oc) ==
    IF ~CHATBOT_READY
    THEN Result(ErrorDict(<<"Chatbot not available: ">> \o Fmt(CHATBOT_ERROR)), <<>>, FALSE)
    ELSE IF ~Truthy(question)
    THEN Result(ErrorDict(<<"Question cannot be empty">>), <<>>, FALSE)
    ELSE IF question.t # "str"
    THEN Result(EmptyMap, <<>>, TRUE)
    ELSE IF ~Truthy(PyStr(strip(question.v)))
    THEN Result(ErrorDict(<<"Question cannot be empty">>), <<>>, FALSE)
    ELSE LET log == <<Call("answer_question", <<PyStr(strip(question.v))>>, EmptyMap)>>
         IN  IF oc.t = "return"
             THEN Result(Success(PyStr(strip(question.v)), oc.v), log, FALSE)
             ELSE Result(ErrorDict(<<"Error processing question: ">> \o oc.v), log, FALSE)

\* ask_question without the try/except around the collaborator call
ask_question_no_except(question, oc) ==
    IF ~CHATBOT_READY
    THEN Result(ErrorDict(<<"Chatbot not available: ">> \o Fmt(CHATBOT_ERROR)), <<>>, FALSE)
    ELSE IF ~Truthy(question)
    THEN Result(ErrorDict(<<"Question cannot be empty">>), <<>>, FALSE)
    ELSE IF question.t # "str"
    THEN Result(EmptyMap, <<>>, TRUE)
    ELSE IF ~Truthy(PyStr(strip(question.v)))
    THEN Result(ErrorDict(<<"Question cannot be empty">>), <<>>, FALSE)
    ELSE LET log == <<Call("answer_question", <<PyStr(strip(question.v))>>, EmptyMap)>>
         IN  IF oc.t = "return"
             THEN Result(Success(question, oc.v), log, FALSE)
             ELSE Result(EmptyMap, log, TRUE)

ask_question(question, oc) ==
    IF ~CHATBOT_READY
    THEN Result(ErrorDict(<<"Chatbot not available: ">> \o Fmt(CHATBOT_ERROR)), <<>>, FALSE)
    ELSE IF ~Truthy(question)
    THEN Result(ErrorDict(<<"Question cannot be empty">>), <<>>, FALSE)
    ELSE IF question.t # "str"
    THEN Result(EmptyMap, <<>>, TRUE)     \* AttributeError from .strip(), outside the try
    ELSE IF ~Truthy(PyStr(strip(question.v)))
    THEN Result(ErrorDict(<<"Question cannot be empty">>), <<>>, FALSE)
    ELSE LET log == <<Call("answer_question", <<PyStr(strip(question.v))>>, EmptyMap)>>
         IN  IF oc.t = "return"
             THEN Result(Success(question, oc.v), log, FALSE)
             ELSE Result(ErrorDict(<<"Error processing question: ">> \o oc.v), log, FALSE)

\* ask_question_with_session testing `not question` only, not the stripped text
ask_question_with_session_no_strip_test(question, session_id, oc) ==
    IF ~CHATBOT_READY
    THEN Result(ErrorDict(<<"Chatbot not available: ">> \o Fmt(CHATBOT_ERROR)), <<>>, FALSE)
    ELSE IF ~Truthy(question)
    THEN Result(ErrorDict(<<"Question cannot be empty">>), <<>>, FALSE)
    ELSE IF question.t # "str"
    THEN Result(EmptyMap, <<>>, TRUE)
    ELSE LET log == <<Call("answer_question", <<PyStr(strip(question.v))>>,
                           [k \in {"session_id"} |-> session_id])>>
         IN  IF oc.t = "return"
             THEN Result(Success(question, oc.v), log, FALSE)
             ELSE Result(ErrorDict(<<"Error processing question: ">> \o oc.v), log, FALSE)

\* ask_question_with_session dropping the session id on the way to the bot
ask_question_with_session_no_session(question, session_id, oc) ==
    IF ~CHATBOT_READY
    THEN Result(ErrorDict(<<"Chatbot not available: ">> \o Fmt(CHATBOT_ERROR)), <<>>, FALSE)
    ELSE IF ~Truthy(question)
    THEN Result(ErrorDict(<<"Question cannot be empty">>), <<>>, FALSE)
    ELSE IF question.t # "str"
    THEN Result(EmptyMap, <<>>, TRUE)
    ELSE IF ~Truthy(PyStr(strip(question.v)))
    THEN Result(ErrorDict(<<"Question cannot be empty">>), <<>>, FALSE)
    ELSE LET log == <<Call("answer_question", <<PyStr(strip(question.v))>>,
                           [k \in {"session_id"} |-> PyNone])>>
         IN  IF oc.t = "return"
             THEN Result(Success(question, oc.v), log, FALSE)
             ELSE Result(ErrorDict(<<"Error processing question: ">> \o oc.v), log, FALSE)

ask_question_with_session(question, session_id, oc) ==
    IF ~CHATBOT_READY
    THEN Result(ErrorDict(<<"Chatbot not available: ">> \o Fmt(CHATBOT_ERROR)), <<>>, FALSE)
    ELSE IF ~Truthy(question)
    THEN Result(ErrorDict(<<"Question cannot be empty">>), <<>>, FALSE)
    ELSE IF question.t # "str"
    THEN Result(EmptyMap, <<>>, TRUE)     \* AttributeError from .strip(), outside the try
    ELSE IF ~Truthy(PyStr(strip(question.v)))
    THEN Result(ErrorDict(<<"Question cannot be empty">>), <<>>, FALSE)
    ELSE LET log == <<Call("answer_question", <<PyStr(strip(question.v))>>,
                           [k \in {"session_id"} |-> session_id])>>
         IN  IF oc.t = "return"
             THEN Result(Success(question, oc.v), log, FALSE)
             ELSE Result(ErrorDict(<<"Error processing question: ">> \o oc.v), log, FALSE)

-----------------------------------------------------------------------------
\* Views: what a route returns for a request, and what it did on the way

View(status, body, log, read, exc) ==
    [status |-> status, body |-> body, calls |-> log, read |-> read, exc |-> exc]

Text(s) == [t |-> "text", v |-> s]

\* Flask's answer to an exception that leaves a view
InternalServerError(read) ==
    View(500, [t |-> "html", v |-> <<"Internal Server Error">>], <<>>, read, TRUE)

MissingMessage ==
    jsonify(PyDict(ErrorDict(<<"Please provide a 'message' field in your request">>)))

health_check ==
    View(200,
         jsonify(PyDict([k \in {"status", "message", "chatbot_ready"} |->
             CASE k = "status"        -> PyStr(<<"healthy">>)
               [] k = "message"       -> PyStr(<<"Hunter College Chatbot API is running">>)
               [] k = "chatbot_ready" -> PyBool(CHATBOT_READY)])),
         <<>>, FALSE, FALSE)

chat(body, oc) ==
    LET data == get_json(body)
    IN  IF ~Truthy(data) \/ "message" \notin DOMAIN data.v
        THEN View(400, MissingMessage, <<>>, TRUE, FALSE)
        ELSE LET response == ask_question(data.v["message"], oc)
             IN  IF response.exc THEN InternalServerError(TRUE)
                 ELSE IF "error" \in DOMAIN response.ret
                 THEN View(500, jsonify(PyDict(response.ret)), response.calls, TRUE, FALSE)
                 ELSE View(200,
                           jsonify(PyDict([k \in {"question", "response", "timestamp"} |->
                               CASE k = "question"  -> response.ret["question"]
                                 [] k = "response"  -> response.ret["answer"]
                                 [] k = "timestamp" -> response.ret["timestamp"]])),
                           response.calls, TRUE, FALSE)

status ==
    View(200,
         jsonify(PyDict([k \in {"status", "chatbot_ready", "error"} |->
             CASE k = "status"        -> PyStr(IF CHATBOT_READY THEN <<"ready">> ELSE <<"error">>)
               [] k = "chatbot_ready" -> PyBool(CHATBOT_READY)
               [] k = "error"         -> IF ~CHATBOT_READY THEN CHATBOT_ERROR ELSE PyNone])),
         <<>>, FALSE, FALSE)

chatbot_status(method) ==
    IF method = "OPTIONS" THEN View(200, Text(<<>>), <<>>, FALSE, FALSE)
    ELSE View(200,
         jsonify(PyDict([k \in {"status", "pythonWorking", "message", "service"} |->
             CASE k = "status"        -> PyStr(IF CHATBOT_READY THEN <<"online">> ELSE <<"error">>)
               [] k = "pythonWorking" -> PyBool(CHATBOT_READY)
               [] k = "message"       ->
                    PyStr(IF CHATBOT_READY THEN <<"Hunter AI chatbot is ready">>
                          ELSE <<"Chatbot error: ">> \o Fmt(CHATBOT_ERROR))
               [] k = "service"       -> PyStr(<<"chatbot">>)])),
         <<>>, FALSE, FALSE)

\* chatbot_ask without the OPTIONS short-circuit
chatbot_ask_no_preflight(method, body, oc) ==
    LET data == get_json(body)
    IN  IF ~Truthy(data) \/ "message" \notin DOMAIN data.v
        THEN View(400, MissingMessage, <<>>, TRUE, FALSE)
        ELSE LET message    == data.v["message"]
                 session_id == IF "session_id" \in DOMAIN data.v
                               THEN data.v["session_id"] ELSE PyNone
                 response   == ask_question_with_session(message, session_id, oc)
             IN  IF response.exc THEN InternalServerError(TRUE)
                 ELSE IF "error" \in DOMAIN response.ret
                 THEN View(500, jsonify(PyDict(response.ret)), response.calls, TRUE, FALSE)
                 ELSE View(200,
                           jsonify(PyDict([k \in {"question", "response", "timestamp",
                                                  "session_id"} |->
                               CASE k = "question"   -> response.ret["question"]
                                 [] k = "response"   -> response.ret["answer"]
                                 [] k = "timestamp"  -> response.ret["timestamp"]
                                 [] k = "session_id" -> session_id])),
                           response.calls, TRUE, FALSE)

chatbot_ask(method, body, oc) ==
    IF method = "OPTIONS" THEN View(200, Text(<<>>), <<>>, FALSE, FALSE)
    ELSE
    LET data == get_json(body)
    IN  IF ~Truthy(data) \/ "message" \notin DOMAIN data.v
        THEN View(400, MissingMessage, <<>>, TRUE, FALSE)
        ELSE LET message    == data.v["message"]
                 session_id == IF "session_id" \in DOMAIN data.v
                               THEN data.v["session_id"] ELSE PyNone
                 response   == ask_question_with_session(message, session_id, oc)
             IN  IF response.exc THEN InternalServerError(TRUE)
                 ELSE IF "error" \in DOMAIN response.ret
                 THEN View(500, jsonify(PyDict(response.ret)), response.calls, TRUE, FALSE)
                 ELSE View(200,
                           jsonify(PyDict([k \in {"question", "response", "timestamp",
                                                  "session_id"} |->
                               CASE k = "question"   -> response.ret["question"]
                                 [] k = "response"   -> response.ret["answer"]
                                 [] k = "timestamp"  -> response.ret["timestamp"]
                                 [] k = "session_id" -> session_id])),
                           response.calls, TRUE, FALSE)

\* reset_session_memory acknowledging the reset whatever the bot did
reset_session_memory_swallow(session_id, oc) ==
    IF ~CHATBOT_READY
    THEN View(500, jsonify(PyDict(ErrorDict(<<"Chatbot not available">>))), <<>>, FALSE, FALSE)
    ELSE View(200,
              jsonify(PyDict([k \in {"message"} |->
                  PyStr(<<"Memory reset for session ">> \o Fmt(PyInt(session_id)))])),
              <<Call("clear_session_memory", <<PyInt(session_id)>>, EmptyMap)>>,
              FALSE, FALSE)

reset_session_memory(session_id, oc) ==
    IF ~CHATBOT_READY
    THEN View(500, jsonify(PyDict(ErrorDict(<<"Chatbot not available">>))), <<>>, FALSE, FALSE)
    ELSE LET log == <<Call("clear_session_memory", <<PyInt(session_id)>>, EmptyMap)>>
         IN  IF oc.t = "return"
             THEN View(200,
                       jsonify(PyDict([k \in {"message"} |->
                           PyStr(<<"Memory reset for session ">> \o Fmt(PyInt(session_id)))])),
                       log, FALSE, FALSE)
             ELSE View(500,
                       jsonify(PyDict(ErrorDict(<<"Failed to reset session memory: ">> \o oc.v))),
                       log, FALSE, FALSE)

-----------------------------------------------------------------------------
\* Requests

Messages == {JString(s) : s \in Strings} \cup {JNumber(7)}

SessionValues == {JNumber(7), JNumber(42)}

SessionIds == {0, 7, 42}

Bodies ==
    {JNull, JObject(EmptyMap)}
    \cup {JObject([k \in {"message"} |-> m]) : m \in Messages}
    \cup {JObject([k \in {"session_id"} |-> sid]) : sid \in SessionValues}
    \cup {JObject([k \in {"message", "session_id"} |-> IF k = "message" THEN m ELSE sid]) :
             m \in Messages, sid \in SessionValues}

PreflightBodies == {JNull, JObject([k \in {"message"} |-> JString(<<"a">>)])}

Request(method, path, segment, origin, body) ==
    [method |-> method, path |-> path, segment |-> segment, origin |-> origin, body |-> body]

NoRequest == Request("", "", <<>>, PyNone, JNull)

NoResponse == [status |-> 0, body |-> Text(<<>>), headers |-> NoHeaders]

\* one request, from routing to the after_request hooks
Serve(request, oc, view) ==
    /\ req' = request
    /\ stub' = oc
    /\ resp' = [status |-> view.status, body |-> view.body,
                headers |-> after_request(request.origin)]
    /\ calls' = view.calls
    /\ bodyRead' = view.read
    /\ propagated' = view.exc
    /\ UNCHANGED <<CHATBOT_READY, CHATBOT_ERROR, bot, boot>>

Init ==
    \E c \in Constructions :
        /\ boot = c
        /\ CHATBOT_READY = Initialize(c).CHATBOT_READY
        /\ CHATBOT_ERROR = Initialize(c).CHATBOT_ERROR
        /\ bot = Initialize(c).bot
        /\ req = NoRequest
        /\ stub = Return(<<>>)
        /\ resp = NoResponse
        /\ calls = <<>>
        /\ bodyRead = FALSE
        /\ propagated = FALSE

HealthCheck ==
    \E origin \in Origins, oc \in Stubs :
        Serve(Request("GET", "/", <<>>, origin, JNull), oc, health_check)

Chat ==
    \E origin \in AskOrigins, body \in Bodies, oc \in Stubs :
        Serve(Request("POST", "/chat", <<>>, origin, body), oc, chat(body, oc))

Status ==
    \E origin \in Origins, oc \in Stubs :
        Serve(Request("GET", "/status", <<>>, origin, JNull), oc, status)

ChatbotStatus ==
    \E origin \in Origins, oc \in Stubs, method \in {"GET", "OPTIONS"},
       body \in PreflightBodies :
        Serve(Request(method, "/api/chatbot/status", <<>>, origin, body), oc,
              chatbot_status(method))

ChatbotAsk ==
    \E origin \in AskOrigins, body \in Bodies, oc \in Stubs :
        Serve(Request("POST", "/api/chatbot/ask", <<>>, origin, body), oc,
              chatbot_ask("POST", body, oc))

ChatbotAskPreflight ==
    \E origin \in Origins, body \in PreflightBodies, oc \in Stubs :
        Serve(Request("OPTIONS", "/api/chatbot/ask", <<>>, origin, body), oc,
              chatbot_ask("OPTIONS", body, oc))

ResetSessionMemory ==
    \E origin \in Origins, n \in SessionIds, oc \in Stubs :
        Serve(Request("POST", "/api/chatbot/reset/<int:session_id>", str_int(n), origin, JNull),
              oc, reset_session_memory(to_python(str_int(n)), oc))

Next ==
    \/ HealthCheck
    \/ Chat
    \/ Status
    \/ ChatbotStatus
    \/ ChatbotAsk
    \/ ChatbotAskPreflight
    \/ ResetSessionMemory

Spec == Init /\ [][Next]_vars

-----------------------------------------------------------------------------
\* Vocabulary of the properties

IsAskPost == req.method = "POST" /\ req.path \in {"/chat", "/api/chatbot/ask"}

IsReset == req.method = "POST" /\ req.path = "/api/chatbot/reset/<int:session_id>"

HasMessage == req.body.t = "object" /\ "message" \in DOMAIN req.body.v

BlankText(s) == \A i \in 1..Len(s) : s[i] \in Whitespace

BlankMessage ==
    /\ HasMessage
    /\ req.body.v["message"].t = "string"
    /\ BlankText(req.body.v["message"].v)

ValidMessage ==
    /\ HasMessage
    /\ req.body.v["message"].t = "string"
    /\ ~BlankText(req.body.v["message"].v)

HasError == resp.body.t = "object" /\ "error" \in DOMAIN resp.body.v

Field(k) == resp.body.v[k]

\* t is s without its leading and trailing whitespace
IsTrimOf(t, s) ==
    \E i \in 1..Len(s) : \E j \in i..Len(s) :
        /\ t = SubSeq(s, i, j)
        /\ s[i] \notin Whitespace
        /\ s[j] \notin Whitespace
        /\ \A k \in 1..Len(s) : (k < i \/ k > j) => s[k] \in Whitespace

SameValue(p, j) ==
    \/ p.t = "None" /\ j.t = "null"
    \/ p.t = "int" /\ j.t = "number" /\ p.v = j.v
    \/ p.t = "str" /\ j.t = "string" /\ p.v = j.v

RequestSession ==
    IF "session_id" \in DOMAIN req.body.v THEN req.body.v["session_id"] ELSE JNull

AnswerCalls == {i \in 1..Len(calls) : calls[i].op = "answer_question"}

BootOk == boot.db.t = "return" /\ boot.bot.t = "return"

BootError == IF boot.db.t = "raise" THEN boot.db.v ELSE boot.bot.v

ACAO == "Access-Control-Allow-Origin"

\* the origin policy as stated: on the allow-list, or https with a host that
\* ends in unycompass.vercel.app
TrustedOrigin(o) ==
    \/ o \in AllowedOrigins
    \/ /\ Len(o) >= 3
       /\ o[1] = "https://"
       /\ o[Len(o) - 1] = "unycompass"
       /\ o[Len(o)] = ".vercel.app"

-----------------------------------------------------------------------------
\* C1: with the chatbot ready, a POST to /chat or /api/chatbot/ask whose body
\* has no message, or whose message is empty or only whitespace, is answered
\* 400 with an error key.
C1_BlankIs400 ==
    (CHATBOT_READY /\ IsAskPost /\ (~HasMessage \/ BlankMessage))
        => (resp.status = 400 /\ HasError)

C3_ChatEchoes ==
    (CHATBOT_READY /\ req.method = "POST" /\ req.path = "/chat"
        /\ ValidMessage /\ stub.t = "return")
        => /\ resp.status = 200
           /\ Field("response") = JString(stub.v)
           /\ Field("question") = req.body.v["message"]

C3_Witness ==
    /\ CHATBOT_READY /\ req.method = "POST" /\ req.path = "/chat"
    /\ HasMessage /\ req.body.v["message"] = JString(<<" ", "a">>)
    /\ stub.t = "return" /\ resp.status = 200

\* C4: answer_question is called only while the chatbot is ready and only for
\* an ask request whose message is present and non-blank.
C4_CallsOnlyWhenValid ==
    (AnswerCalls # {}) => (CHATBOT_READY /\ IsAskPost /\ ValidMessage)

C4_Witness ==
    /\ AnswerCalls # {}
    /\ req.body.v["message"] = JString(<<"a", " ">>)

\* C5: when answer_question raises during a valid ask request, the answer is
\* 500 with an error key, the exception stays inside the handler, the
\* readiness state is what start-up set, and the next valid request whose
\* collaborator call returns is answered 200.
C5_CollaboratorFailure ==
    /\ [](  (CHATBOT_READY /\ IsAskPost /\ ValidMessage /\ stub.t = "raise")
              => (resp.status = 500 /\ HasError /\ ~propagated))
    /\ [][ (CHATBOT_READY /\ IsAskPost /\ ValidMessage /\ stub.t = "raise")
              => /\ CHATBOT_READY' = CHATBOT_READY
                 /\ (IsAskPost' /\ ValidMessage' /\ stub'.t = "return")
                        => resp'.status = 200 ]_vars

C5_Witness ==
    /\ CHATBOT_READY /\ IsAskPost /\ ValidMessage /\ stub.t = "raise"
    /\ Len(calls) = 1 /\ resp.status = 500

C7_CorsOnlyTrusted ==
    (ACAO \in DOMAIN resp.headers) =>
        /\ req.origin.t = "str"
        /\ TrustedOrigin(req.origin.v)
        /\ resp.headers[ACAO] = req.origin.v

\* C8: OPTIONS on /api/chatbot/status or /api/chatbot/ask is answered 200 with
\* an empty body, ready or not, without reading the body or calling the
\* collaborator.
C8_Preflight ==
    (req.method = "OPTIONS" /\ req.path \in {"/api/chatbot/status", "/api/chatbot/ask"})
        => /\ resp.status = 200
           /\ resp.body = Text(<<>>)
           /\ ~bodyRead
           /\ calls = <<>>

C8_Witness ==
    /\ req.method = "OPTIONS" /\ req.path = "/api/chatbot/ask"
    /\ ~CHATBOT_READY /\ req.body # JNull /\ resp.status = 200

\* C9: the readiness state is what start-up made of the two constructions
\* (ready with a bot and no error when both succeeded, otherwise not ready,
\* no bot, and the text of the failure) and no request ever changes it.
C9_ReadinessFixed ==
    /\ [](/\ CHATBOT_READY = BootOk
          /\ CHATBOT_READY => (bot # PyNone /\ CHATBOT_ERROR = PyNone)
          /\ ~CHATBOT_READY => (bot = PyNone /\ CHATBOT_ERROR = PyStr(BootError)))
    /\ [][UNCHANGED <<CHATBOT_READY, CHATBOT_ERROR, bot>>]_vars

C9_Witness ==
    /\ boot.bot.t = "raise" /\ ~CHATBOT_READY /\ bot = PyNone
    /\ IsAskPost /\ ValidMessage /\ resp.status = 500

\* C10: a successful POST to /api/chatbot/ask made one collaborator call, with
\* the trimmed message and the body's session_id (None when absent), and
\* answers with that session_id; a successful POST to /chat made one call
\* with the trimmed message and no session id.
C10_SessionPassThrough ==
    (IsAskPost /\ resp.status = 200) =>
        /\ Len(calls) = 1
        /\ calls[1].op = "answer_question"
        /\ Len(calls[1].args) = 1
        /\ calls[1].args[1].t = "str"
        /\ IsTrimOf(calls[1].args[1].v, req.body.v["message"].v)
        /\ req.path = "/chat" => DOMAIN calls[1].kwargs = {}
        /\ req.path = "/api/chatbot/ask" =>
              /\ DOMAIN calls[1].kwargs = {"session_id"}
              /\ SameValue(calls[1].kwargs["session_id"], RequestSession)
              /\ Field("session_id") = RequestSession

C10_Witness ==
    /\ req.path = "/api/chatbot/ask" /\ req.method = "POST" /\ resp.status = 200
    /\ req.body.v["message"] = JString(<<" ", "a">>)
    /\ RequestSession = JNumber(42)

====
